---------------------------- MODULE Spec2Model ----------------------------
(***************************************************************************)
(* Model of docs/middleware/scale_middleware.py: the stability/duplicate   *)
(* filter and the pricing of events (StabilityBuffer,                      *)
(* ScaleMiddleware.process_reading), the frame parser (AclasPS6XParser),   *)
(* the reader loop with reconnect backoff (scale_reader_loop,              *)
(* SerialScaleReader.connect / read_line, ScaleMiddleware.stop), and the   *)
(* sinks: the audit log (TransactionLogger) and the broadcast to the       *)
(* listeners with their handlers (ScaleWebSocketServer).                   *)
(*                                                                         *)
(* Units.  Weights are fixed-point integers in grams (0.001 kg), so that   *)
(* round(x, 3) of a weight in kg is an integer here; thresholds are in     *)
(* grams too (0.01 kg = 10).  Prices are integers in thousandths of a      *)
(* shilling.  Times and delays are integers in seconds.                    *)
(***************************************************************************)
EXTENDS Integers, Sequences, FiniteSets, TLC

(***************************************************************************)
(* Program constants.                                                      *)
(***************************************************************************)
WindowCap == 10
MeanCount == 3
DupTolerance == 10
DefaultThreshold == 10
DefaultReadings == 3
DefaultTimeout == 2
InitialDelay == 1
MaxDelay == 30

(***************************************************************************)
(* Bounds of the model.                                                    *)
(***************************************************************************)
MaxSamples == 5
MaxReadings == 3
MaxWinSamples == 12
MaxLoopSamples == 3
MaxFails == 7
MaxPriceSamples == 4

\* Weights the scale may report, in grams.  2000 and 2010 are exactly one
\* threshold (and one duplicate tolerance) apart, 2000 and 2011 just beyond.
Weights == {0, 2000, 2010, 2011}
\* Values config.json may give stability_threshold, in grams.
Thresholds == {5, DefaultThreshold}
\* Seconds that may pass between two calls of process_reading.
Dts == {0, 2}
\* Inputs of the window specification: a non-positive and two positive weights.
WinWeights == {0, 2000, 2005}
\* Inputs of the reader-loop specification: the frames read and the seconds
\* between two of them.
LoopWeights == {0, 2000}
LoopDts == {1}
\* The listeners that may connect to the WebSocket server.
Listeners == {"l1", "l2", "l3"}
\* Inputs of the pricing specification: a product with and one without a table
\* price, frames with and without a unit price and a device total of their own,
\* each read one cooldown after the previous one.
PriceProducts == {"0001", "9999"}
PriceWeights == {2000, 2004}
PriceUnitPrices == {0, 999990}
PriceTotals == {0, 7770}
PriceDts == {2}

None == <<>>
Some(x) == <<x>>

VARIABLES
    readings,            \* StabilityBuffer.readings
    last_sent_weight,    \* StabilityBuffer.last_sent_weight (None or Some(w))
    last_sent_time,      \* StabilityBuffer.last_sent_time (None or Some(t))
    stability_readings,  \* config['scale']['stability_readings']
    stability_threshold, \* config['scale']['stability_threshold']
    duplicate_timeout,   \* config['scale']['duplicate_timeout']
    now,                 \* datetime.now()
    events,              \* the ScaleReadings handed to the logger and the broadcast
    hist,                \* history: one record per process_reading call
    pc,                  \* where scale_reader_loop is
    running,             \* ScaleMiddleware.running
    port_open,           \* scale_reader.serial_port is set and is_open
    link_up,             \* environment: the serial device can be opened and read
    reconnect_delay,     \* local of scale_reader_loop
    data,                \* local of scale_reader_loop: the frame just read
    fails,               \* history: consecutive failed connects (saturating)
    backoffs,            \* history: backoff delays slept since the last successful connect
    last_read,           \* history: how the last read_line ended
    read_fails,          \* history: consecutive failed reads (saturating)
    streak_backoffs,     \* history: backoff delays slept since the first of those
    connects_after_stop, \* history: connect attempts started after stop()
    reads_after_stop,    \* history: reads started after stop()
    clients,             \* ScaleWebSocketServer.clients
    closed,              \* environment: attached listeners whose connection has closed
    gone,                \* history: listeners whose handler has ended
    stalled,             \* environment: listeners that have stopped reading
    log_lines,           \* the lines of the audit log file
    log_failed,          \* history: events whose log write raised
    it_left,             \* broadcast: members the set iterator has yet to yield
    it_used,             \* broadcast: size of clients when the iterator was made
    cur,                 \* broadcast: the client of the pending send (None or Some(c))
    disconnected,        \* broadcast: local set disconnected
    received,            \* history: the events each listener has received
    whole,               \* history: listeners attached since the broadcast began
    bstat,               \* history: how the last broadcast ended
    last_recv,           \* history: the listener message just handled
    chunk,               \* the bytes handed to AclasPS6XParser.parse
    src,                 \* history: the pieces the chunk was put together from
    parsed               \* None before the call, then Some(what parse returned)

stab_vars == <<readings, last_sent_weight, last_sent_time, now, events, hist>>
conf_vars == <<stability_readings, stability_threshold, duplicate_timeout>>
loop_vars == <<pc, running, port_open, link_up, reconnect_delay, data, fails,
               backoffs, last_read, read_fails, streak_backoffs,
               connects_after_stop, reads_after_stop>>
sink_vars == <<clients, closed, gone, stalled, log_lines, log_failed, it_left, it_used,
               cur, disconnected, received, whole, bstat, last_recv>>
parse_vars == <<chunk, src, parsed>>
vars == <<stab_vars, conf_vars, loop_vars, sink_vars, parse_vars>>

(***************************************************************************)
(* Arithmetic helpers.                                                     *)
(***************************************************************************)
Abs(x) == IF x < 0 THEN -x ELSE x

MinOf(a, b) == IF a <= b THEN a ELSE b

RECURSIVE SeqSum(_)
SeqSum(s) == IF s = <<>> THEN 0 ELSE Head(s) + SeqSum(Tail(s))

SeqMax(s) == CHOOSE x \in {s[i] : i \in 1..Len(s)} : \A j \in 1..Len(s) : s[j] <= x

SeqMin(s) == CHOOSE x \in {s[i] : i \in 1..Len(s)} : \A j \in 1..Len(s) : x <= s[j]

\* Python's s[-k:] for k >= 1: the last k elements, or all of s when it is shorter.
LastK(s, k) == IF Len(s) <= k THEN s ELSE SubSeq(s, Len(s) - k + 1, Len(s))

\* round(total / count, 3) of a total in grams: the nearest integer to total/count
\* (total/3 is never halfway between two integers).
RoundDiv(total, count) == (2 * total + count) \div (2 * count)

(***************************************************************************)
(* StabilityBuffer.                                                        *)
(***************************************************************************)
\* The newest sample evicted in place of the oldest.
add_reading_evict_newest(rs, weight) ==
    LET appended == Append(rs, weight)
    IN  IF Len(appended) > WindowCap THEN SubSeq(appended, 1, WindowCap) ELSE appended

\* The eviction one sample late.
add_reading_late_evict(rs, weight) ==
    LET appended == Append(rs, weight)
    IN  IF Len(appended) > WindowCap + 1 THEN Tail(appended) ELSE appended

add_reading(rs, weight) ==
    LET appended == Append(rs, weight)
    IN  IF Len(appended) > WindowCap THEN Tail(appended) ELSE appended

\* A strict comparison in place of <=.
is_stable_strict(rs, threshold, required_readings) ==
    IF Len(rs) < required_readings
    THEN FALSE
    ELSE LET recent == LastK(rs, required_readings)
         IN  SeqMax(recent) - SeqMin(recent) < threshold

is_stable(rs, threshold, required_readings) ==
    IF Len(rs) < required_readings
    THEN FALSE
    ELSE LET recent == LastK(rs, required_readings)
         IN  SeqMax(recent) - SeqMin(recent) <= threshold

get_stable_weight(rs) == RoundDiv(SeqSum(LastK(rs, MeanCount)), MeanCount)

\* The cooldown compared with <= in place of <.
is_duplicate_inclusive(weight, timeout, sent_weight, sent_time, t) ==
    IF sent_weight = None THEN FALSE
    ELSE IF Abs(weight - sent_weight[1]) > DupTolerance THEN FALSE
    ELSE IF sent_time = None THEN FALSE
    ELSE (t - sent_time[1]) <= timeout

is_duplicate(weight, timeout, sent_weight, sent_time, t) ==
    IF sent_weight = None THEN FALSE
    ELSE IF Abs(weight - sent_weight[1]) > DupTolerance THEN FALSE
    ELSE IF sent_time = None THEN FALSE
    ELSE (t - sent_time[1]) < timeout

\* The time of the first event kept for ever.
mark_sent_keeps_time(weight, t) ==
    /\ last_sent_weight' = Some(weight)
    /\ last_sent_time' = IF last_sent_time = None THEN Some(t) ELSE last_sent_time

mark_sent(weight, t) ==
    /\ last_sent_weight' = Some(weight)
    /\ last_sent_time' = Some(t)

(***************************************************************************)
(* ScaleMiddleware.process_reading, called with a frame of the given       *)
(* weight dt seconds after the previous call.                              *)
(***************************************************************************)
\* Only negative weights skipped.
Skipped_negative_only(weight) == weight < 0

Skipped(weight) == weight <= 0

\* DEFAULT_CONFIG['plu_prices'], in thousandths of a shilling per kg.
plu_prices ==
    [p \in {"0001", "0002", "0003", "0004", "0005"} |->
        CASE p = "0001" -> 850000
          [] p = "0002" -> 1200000
          [] p = "0003" -> 650000
          [] p = "0004" -> 480000
          [] p = "0005" -> 950000]

\* dict.get(key, 0.0)
price_get(table, key) == IF key \in DOMAIN table THEN table[key] ELSE 0

\* A decoded frame: the dict returned by the parser.
Frame(product_id, weight, unit_price, total_price) ==
    [product_id |-> product_id, weight |-> weight,
     unit_price |-> unit_price, total_price |-> total_price]

\* The frame of a chunk that carries a weight only.
WeightFrame(weight) == Frame("0000", weight, 0, 0)

\* The unit price of the frame taken as it is, with no table lookup.
event_unit_price_frame_only(frame) == frame.unit_price

\* The frame's unit price, or the table's when the frame has none.
event_unit_price(frame) ==
    IF frame.unit_price = 0
    THEN price_get(plu_prices, frame.product_id)
    ELSE frame.unit_price

\* round(weight * unit_price, 2): grams times thousandths of a shilling per kg
\* is millionths of a shilling; the result is a whole number of cents.  The
\* product is formed in two parts, which keeps it within 32 bits.
round_price(weight, unit_price) ==
    LET high == weight * (unit_price \div 10)
        low == weight * (unit_price % 10)
    IN  10 * ((high \div 1000) + RoundDiv(10 * (high % 1000) + low, 10000))

event_total_price(stable_weight, unit_price) == round_price(stable_weight, unit_price)

\* The ScaleReading built on the emitting path.
make_reading(frame, stable_weight, t) ==
    [product_id |-> frame.product_id,
     weight |-> stable_weight,
     unit_price |-> event_unit_price(frame),
     total_price |-> event_total_price(stable_weight, event_unit_price(frame)),
     timestamp |-> t]

Entry(frame, t, outcome, settled) ==
    [weight |-> frame.weight, product_id |-> frame.product_id,
     unit_price |-> frame.unit_price, total_price |-> frame.total_price,
     time |-> t, outcome |-> outcome, settled |-> settled]

process_frame(frame, dt) ==
    LET t == now + dt
        weight == frame.weight
        rs == add_reading(readings, weight)
        stable_weight == get_stable_weight(rs)
    IN  /\ now' = t
        /\ IF Skipped(weight)
           THEN /\ hist' = Append(hist, Entry(frame, t, "rejected", 0))
                /\ UNCHANGED <<readings, last_sent_weight, last_sent_time,
                               events>>
           ELSE /\ readings' = rs
                /\ IF ~is_stable(rs, stability_threshold, stability_readings)
                   THEN /\ hist' = Append(hist, Entry(frame, t, "unstable", 0))
                        /\ UNCHANGED <<last_sent_weight, last_sent_time,
                                       events>>
                   ELSE IF is_duplicate(stable_weight, duplicate_timeout,
                                        last_sent_weight, last_sent_time, t)
                   THEN /\ hist' = Append(hist, Entry(frame, t, "duplicate", stable_weight))
                        /\ UNCHANGED <<last_sent_weight, last_sent_time,
                                       events>>
                   ELSE /\ mark_sent(stable_weight, t)
                        /\ events' = Append(events, make_reading(frame, stable_weight, t))
                        /\ hist' = Append(hist, Entry(frame, t, "emitted", stable_weight))

\* The call with a frame that carries a weight only.
process_reading(weight, dt) == process_frame(WeightFrame(weight), dt)

(***************************************************************************)
(* AclasPS6XParser.  A chunk is a sequence of bytes, each written as a     *)
(* one-character string; "STX", "ETX", "CR", "LF" stand for the control    *)
(* bytes 02, 03, 0D, 0A and "0xFF" for a byte that is not ASCII.  The      *)
(* patterns are matched as re.search matches them: at the leftmost         *)
(* position where a match exists, each quantifier taking all it can.       *)
(* Every quantified piece is followed by a character it cannot itself      *)
(* match (or by nothing), so giving characters back never turns a failure  *)
(* into a match.  float() of a matched number is an integer in             *)
(* thousandths; the chunks of the model carry at most three decimals.      *)
(***************************************************************************)
Digit == {"0", "1", "2", "3", "4", "5", "6", "7", "8", "9"}

Whitespace == {" ", "CR", "LF"}

NonAscii == {"0xFF"}

IsAscii(b) == b \notin NonAscii

\* text[i], or "" past either end
At(text, i) == IF i \in 1..Len(text) THEN text[i] ELSE ""

RECURSIVE DigitRun(_, _)
\* the number of digits from position i on
DigitRun(text, i) == IF At(text, i) \in Digit THEN 1 + DigitRun(text, i + 1) ELSE 0

RECURSIVE SpaceRun(_, _)
SpaceRun(text, i) == IF At(text, i) \in Whitespace THEN 1 + SpaceRun(text, i + 1) ELSE 0

\* data.decode('ascii', errors='ignore')
decode(bytes) == SelectSeq(bytes, IsAscii)

RECURSIVE lstrip(_)
lstrip(text) ==
    IF text # <<>> /\ Head(text) \in Whitespace THEN lstrip(Tail(text)) ELSE text

RECURSIVE rstrip(_)
rstrip(text) ==
    IF text # <<>> /\ text[Len(text)] \in Whitespace
    THEN rstrip(SubSeq(text, 1, Len(text) - 1))
    ELSE text

strip(text) == rstrip(lstrip(text))

\* \d+\.?\d* matched at position i: the position after the match, 0 for no match
decimal_end(text, i) ==
    LET n == DigitRun(text, i)
    IN  IF n = 0 THEN 0
        ELSE IF At(text, i + n) = "." THEN i + n + 1 + DigitRun(text, i + n + 1)
        ELSE i + n

\* [+-]?\d+\.?\d*
signed_end(text, i) ==
    decimal_end(text, IF At(text, i) \in {"+", "-"} THEN i + 1 ELSE i)

\* P(\d{4,6})W([+-]?\d+\.?\d*) matched at position i
plu_weight_end(text, i) ==
    LET n == DigitRun(text, i + 1)
    IN  IF At(text, i) = "P" /\ n >= 4 /\ n <= 6 /\ At(text, i + n + 1) = "W"
        THEN signed_end(text, i + n + 2)
        ELSE 0

\* The end of the unit price group of the full pattern matched at position i.
unit_end(text, i) ==
    LET w == plu_weight_end(text, i)
    IN  IF w # 0 /\ At(text, w) = "U" THEN decimal_end(text, w + 1) ELSE 0

\* P(\d{4,6})W([+-]?\d+\.?\d*)U(\d+\.?\d*)T(\d+\.?\d*) matched at position i
full_end(text, i) ==
    LET u == unit_end(text, i)
    IN  IF u # 0 /\ At(text, u) = "T" THEN decimal_end(text, u + 1) ELSE 0

\* W([+-]?\d+\.?\d*) matched at position i
weight_only_end(text, i) == IF At(text, i) = "W" THEN signed_end(text, i + 1) ELSE 0

\* The end of the number of the simple pattern matched at position i.
simple_number_end(text, i) ==
    LET d == decimal_end(text, i)
        k == d + SpaceRun(text, d)
    IN  IF d # 0 /\ At(text, k) \in {"k", "K"} /\ At(text, k + 1) \in {"g", "G"}
        THEN d
        ELSE 0

\* (\d+\.?\d*)\s*[kK][gG] matched at position i
simple_end(text, i) ==
    LET d == simple_number_end(text, i)
    IN  IF d = 0 THEN 0 ELSE d + SpaceRun(text, d) + 2

\* The least member of a non-empty set of positions, 0 for the empty set.
first_of(S) == IF S = {} THEN 0 ELSE CHOOSE i \in S : \A j \in S : i <= j

\* The greatest member, 0 for the empty set.
last_of(S) == IF S = {} THEN 0 ELSE CHOOSE i \in S : \A j \in S : j <= i

\* The rightmost match in place of the leftmost.
search_full_last(text) == last_of({i \in 1..Len(text) : full_end(text, i) # 0})

\* PATTERNS[...].search(text): the position of the match, 0 for no match
search_full(text) == first_of({i \in 1..Len(text) : full_end(text, i) # 0})

search_plu_weight(text) == first_of({i \in 1..Len(text) : plu_weight_end(text, i) # 0})

search_weight_only(text) == first_of({i \in 1..Len(text) : weight_only_end(text, i) # 0})

search_simple(text) == first_of({i \in 1..Len(text) : simple_end(text, i) # 0})

DigitChars == <<"0", "1", "2", "3", "4", "5", "6", "7", "8", "9">>

DigitValue(c) == (CHOOSE k \in 1..10 : DigitChars[k] = c) - 1

RECURSIVE IntOf(_)
\* int() of a sequence of digits; 0 for the empty sequence
IntOf(digits) ==
    IF digits = <<>> THEN 0
    ELSE 10 * IntOf(SubSeq(digits, 1, Len(digits) - 1)) + DigitValue(digits[Len(digits)])

\* float() of a matched number, in thousandths.
float_milli(number) ==
    LET body == IF Head(number) \in {"+", "-"} THEN Tail(number) ELSE number
        n == DigitRun(body, 1)
        fraction == SubSeq(body, n + 2, Len(body)) \o <<"0", "0", "0">>
        magnitude == 1000 * IntOf(SubSeq(body, 1, n)) + IntOf(SubSeq(fraction, 1, 3))
    IN  IF Head(number) = "-" THEN -magnitude ELSE magnitude

RECURSIVE Join(_)
\* the str made of the characters
Join(chars) == IF chars = <<>> THEN "" ELSE Head(chars) \o Join(Tail(chars))

\* The groups of the patterns matched at position i.
plu_group(text, i) == Join(SubSeq(text, i + 1, i + DigitRun(text, i + 1)))

weight_group(text, i) ==
    float_milli(SubSeq(text, i + DigitRun(text, i + 1) + 2, plu_weight_end(text, i) - 1))

unit_price_group(text, i) ==
    float_milli(SubSeq(text, plu_weight_end(text, i) + 1, unit_end(text, i) - 1))

total_group(text, i) ==
    float_milli(SubSeq(text, unit_end(text, i) + 1, full_end(text, i) - 1))

\* The dicts parse returns.
full_frame(text, i) ==
    Frame(plu_group(text, i), weight_group(text, i), unit_price_group(text, i),
          total_group(text, i))

plu_weight_frame(text, i) ==
    LET unit_price == price_get(plu_prices, plu_group(text, i))
    IN  Frame(plu_group(text, i), weight_group(text, i), unit_price,
              round_price(weight_group(text, i), unit_price))

weight_only_frame(text, i) ==
    WeightFrame(float_milli(SubSeq(text, i + 1, weight_only_end(text, i) - 1)))

simple_frame(text, i) ==
    WeightFrame(float_milli(SubSeq(text, i, simple_number_end(text, i) - 1)))

\* The weight-only pattern tried before the Product+Weight pattern.
parse_weight_first(bytes) ==
    LET text == strip(decode(bytes))
    IN  IF text = <<>> THEN None
        ELSE IF search_full(text) # 0
        THEN Some(full_frame(text, search_full(text)))
        ELSE IF search_weight_only(text) # 0
        THEN Some(weight_only_frame(text, search_weight_only(text)))
        ELSE IF search_plu_weight(text) # 0
        THEN Some(plu_weight_frame(text, search_plu_weight(text)))
        ELSE IF search_simple(text) # 0
        THEN Some(simple_frame(text, search_simple(text)))
        ELSE None

\* AclasPS6XParser.parse: None, or Some(frame).  Nothing in the body raises on
\* bytes (the groups are numbers float() accepts), and an exception would be
\* turned into None.
parse(bytes) ==
    LET text == strip(decode(bytes))
    IN  IF text = <<>> THEN None
        ELSE IF search_full(text) # 0
        THEN Some(full_frame(text, search_full(text)))
        ELSE IF search_plu_weight(text) # 0
        THEN Some(plu_weight_frame(text, search_plu_weight(text)))
        ELSE IF search_weight_only(text) # 0
        THEN Some(weight_only_frame(text, search_weight_only(text)))
        ELSE IF search_simple(text) # 0
        THEN Some(simple_frame(text, search_simple(text)))
        ELSE None

\* What the scale may put in a chunk: frames of the four formats (the two Full
\* frames with the fields they carry), text that is no frame, and frames that
\* miss the Full or Product+Weight format by one character.
Bodies ==
    {[kind |-> "full", expect |-> Some(Frame("0002", 2500, 1200000, 3000000)),
      text |-> <<"P", "0", "0", "0", "2", "W", "+", "0", "0", "2", ".",
                 "5", "0", "0", "U", "1", "2", "0", "0", ".", "0", "0",
                 "T", "3", "0", "0", "0", ".", "0", "0">>],
     [kind |-> "full", expect |-> Some(Frame("123456", -1000, 2000, 3000)),
      text |-> <<"P", "1", "2", "3", "4", "5", "6", "W", "-", "1", "U",
                 "2", "T", "3">>],
     [kind |-> "plu_weight", expect |-> None,
      text |-> <<"P", "0", "0", "0", "1", "W", "1", ".", "2", "5">>],
     [kind |-> "weight_only", expect |-> None,
      text |-> <<"W", "0", ".", "7", "5">>],
     [kind |-> "simple", expect |-> None,
      text |-> <<"1", ".", "5", "k", "g">>],
     [kind |-> "simple", expect |-> None,
      text |-> <<"2", " ", "K", "G">>],
     [kind |-> "none", expect |-> None,
      text |-> <<"S", "T">>],
     [kind |-> "none", expect |-> None,
      text |-> <<>>],
     [kind |-> "near_miss", expect |-> None,
      text |-> <<"P", "1", "2", "3", "W", "1", "U", "2", "T", "3">>],
     [kind |-> "near_miss", expect |-> None,
      text |-> <<"P", "1", "2", "3", "4", "5", "6", "7", "W", "1", "U",
                 "2", "T", "3">>],
     [kind |-> "near_miss", expect |-> None,
      text |-> <<"P", "0", "0", "0", "2", "W", "2", ".", "5", "U", "1",
                 "2", "T">>]}

\* Bytes that may precede it: nothing, control bytes, garbage, a digit, and
\* frames or beginnings of frames of their own.
Prefixes ==
    {<<>>,
     <<"STX">>,
     <<"x">>,
     <<"7">>,
     <<" ">>,
     <<"0xFF">>,
     <<"W", "9", " ">>,
     <<"P", "9", "9", "9", "9", "W", "9", "U", "9", "T", "9", ",">>,
     <<"3", "k", "g", " ">>,
     <<"P", "0", "0", "0", "5", "W", "2", " ">>,
     <<"P", "0", "0", "0", "1">>}

\* Bytes that may follow it.
Suffixes ==
    {<<>>,
     <<"ETX">>,
     <<"CR", "LF">>,
     <<"5">>,
     <<".", "5">>,
     <<"x">>,
     <<"0xFF">>,
     <<" ", "W", "9">>,
     <<",", "P", "9", "9", "9", "9", "W", "9", "U", "9", "T", "9">>,
     <<"k", "g">>,
     <<",", "P", "0", "0", "0", "5", "W", "2">>}

(***************************************************************************)
(* Initial states.                                                         *)
(***************************************************************************)
InitState ==
    /\ readings = <<>>
    /\ last_sent_weight = None
    /\ last_sent_time = None
    /\ now = 0
    /\ events = <<>>
    /\ hist = <<>>
    /\ pc = "loop"
    /\ running = TRUE
    /\ port_open = FALSE
    /\ link_up = TRUE
    /\ reconnect_delay = InitialDelay
    /\ data = None
    /\ fails = 0
    /\ backoffs = <<>>
    /\ last_read = "none"
    /\ read_fails = 0
    /\ streak_backoffs = <<>>
    /\ connects_after_stop = 0
    /\ reads_after_stop = 0
    /\ clients = {}
    /\ closed = {}
    /\ gone = {}
    /\ stalled = {}
    /\ log_lines = <<>>
    /\ log_failed = {}
    /\ it_left = {}
    /\ it_used = 0
    /\ cur = None
    /\ disconnected = {}
    /\ received = [c \in Listeners |-> <<>>]
    /\ whole = {}
    /\ bstat = "none"
    /\ last_recv = None

\* DEFAULT_CONFIG['scale']
InitDefault ==
    /\ InitState
    /\ chunk = <<>>
    /\ src = None
    /\ parsed = None
    /\ stability_readings = DefaultReadings
    /\ stability_threshold = DefaultThreshold
    /\ duplicate_timeout = DefaultTimeout

\* config.json may override the stability count and the threshold.
Init ==
    /\ InitState
    /\ chunk = <<>>
    /\ src = None
    /\ parsed = None
    /\ stability_readings \in 1..MaxReadings
    /\ stability_threshold \in Thresholds
    /\ duplicate_timeout = DefaultTimeout

(***************************************************************************)
(* The stability filter driven directly, one call per decoded frame.       *)
(***************************************************************************)
Ingest(weight, dt) ==
    /\ Len(hist) < MaxSamples
    /\ process_reading(weight, dt)
    /\ UNCHANGED <<conf_vars, parse_vars, sink_vars, loop_vars>>

Next == \E weight \in Weights, dt \in Dts : Ingest(weight, dt)

Spec == Init /\ [][Next]_vars

(***************************************************************************)
(* The same filter under the default configuration, fed long enough to     *)
(* fill the window and evict from it.                                      *)
(***************************************************************************)
IngestWin(weight) ==
    /\ Len(hist) < MaxWinSamples
    /\ process_reading(weight, 0)
    /\ UNCHANGED <<conf_vars, parse_vars, sink_vars, loop_vars>>

NextWin == \E weight \in WinWeights : IngestWin(weight)

SpecWin == InitDefault /\ [][NextWin]_vars

(***************************************************************************)
(* The filter fed with priced frames under the default configuration.      *)
(***************************************************************************)
IngestFrame(frame, dt) ==
    /\ Len(hist) < MaxPriceSamples
    /\ process_frame(frame, dt)
    /\ UNCHANGED <<conf_vars, parse_vars, sink_vars, loop_vars>>

NextPrice ==
    \E product_id \in PriceProducts, weight \in PriceWeights,
       unit_price \in PriceUnitPrices, total_price \in PriceTotals, dt \in PriceDts :
        IngestFrame(Frame(product_id, weight, unit_price, total_price), dt)

PriceSpec == InitDefault /\ [][NextPrice]_vars

(***************************************************************************)
(* The parser called once on a chunk put together from a prefix, a body    *)
(* and a suffix.                                                           *)
(***************************************************************************)
InitParse ==
    /\ InitState
    /\ stability_readings = DefaultReadings
    /\ stability_threshold = DefaultThreshold
    /\ duplicate_timeout = DefaultTimeout
    /\ src \in [pre : Prefixes, body : Bodies, post : Suffixes]
    /\ chunk = src.pre \o src.body.text \o src.post
    /\ parsed = None

Parse ==
    /\ parsed = None
    /\ parsed' = Some(parse(chunk))
    /\ UNCHANGED <<stab_vars, conf_vars, loop_vars, sink_vars, chunk, src>>

NextParse == Parse

ParseSpec == InitParse /\ [][NextParse]_vars

(***************************************************************************)
(* ScaleMiddleware.scale_reader_loop, one action per step between two      *)
(* points where the loop waits or where stop() may be observed.  pc is     *)
(*   "loop"     at the while test (line 569)                               *)
(*   "body"     past the test, at the port check (line 571)                *)
(*   "connect"  in scale_reader.connect() (line 572)                       *)
(*   "backoff"  in asyncio.sleep(reconnect_delay) (line 576)               *)
(*   "read"     in scale_reader.read_async() (line 581)                    *)
(*   "process"  in process_reading(data) (line 584)                        *)
(*   "idle"     in asyncio.sleep(0.1) (line 587)                           *)
(*   "exit"     past the loop, before run()'s finally block                *)
(*   "stopped"  after run()'s finally block.                               *)
(* serial.Serial(...) and readline() raise SerialException when the device *)
(* cannot be opened or read: that is link_up = FALSE here.                 *)
(***************************************************************************)
\* History counters saturate, so that the loop may fail without end.
Bump(n, cap) == IF n < cap THEN n + 1 ELSE n

Remember(s, x, cap) == IF Len(s) < cap THEN Append(s, x) ELSE Append(Tail(s), x)

\* The test of the while loop taken as always true.
LoopTest_ignores_running ==
    /\ pc = "loop"
    /\ pc' = "body"
    /\ UNCHANGED <<stab_vars, conf_vars, parse_vars, sink_vars, running,
                   port_open, link_up, reconnect_delay, data, fails, backoffs,
                   last_read, read_fails, streak_backoffs, connects_after_stop,
                   reads_after_stop>>

LoopTest ==
    /\ pc = "loop"
    /\ pc' = IF running THEN "body" ELSE "exit"
    /\ UNCHANGED <<stab_vars, conf_vars, parse_vars, sink_vars, running,
                   port_open, link_up, reconnect_delay, data, fails, backoffs,
                   last_read, read_fails, streak_backoffs, connects_after_stop,
                   reads_after_stop>>

CheckPort ==
    /\ pc = "body"
    /\ IF ~port_open
       THEN /\ pc' = "connect"
            /\ connects_after_stop' =
                  IF running THEN connects_after_stop ELSE Bump(connects_after_stop, 2)
            /\ UNCHANGED reads_after_stop
       ELSE /\ pc' = "read"
            /\ reads_after_stop' =
                  IF running THEN reads_after_stop ELSE Bump(reads_after_stop, 2)
            /\ UNCHANGED connects_after_stop
    /\ UNCHANGED <<stab_vars, conf_vars, parse_vars, sink_vars, running,
                   port_open, link_up, reconnect_delay, data, fails, backoffs,
                   last_read, read_fails, streak_backoffs>>

\* connect() returned True: the delay is reset and the loop goes on to read.
ConnectOk ==
    /\ pc = "connect"
    /\ link_up
    /\ port_open' = TRUE
    /\ reconnect_delay' = InitialDelay
    /\ fails' = 0
    /\ backoffs' = <<>>
    /\ pc' = "read"
    /\ reads_after_stop' = IF running THEN reads_after_stop ELSE Bump(reads_after_stop, 2)
    /\ UNCHANGED <<stab_vars, conf_vars, parse_vars, sink_vars, running,
                   link_up, data, last_read, read_fails, streak_backoffs,
                   connects_after_stop>>

\* A failed connect that ends the loop.
ConnectFail_gives_up ==
    /\ pc = "connect"
    /\ ~link_up
    /\ pc' = "exit"
    /\ fails' = Bump(fails, MaxFails)
    /\ UNCHANGED <<stab_vars, conf_vars, parse_vars, sink_vars, running,
                   port_open, link_up, reconnect_delay, data, backoffs,
                   last_read, read_fails, streak_backoffs, connects_after_stop,
                   reads_after_stop>>

\* connect() returned False: the loop sleeps reconnect_delay.
ConnectFail ==
    /\ pc = "connect"
    /\ ~link_up
    /\ pc' = "backoff"
    /\ fails' = Bump(fails, MaxFails)
    /\ backoffs' = Remember(backoffs, reconnect_delay, MaxFails)
    /\ streak_backoffs' =
          IF read_fails > 0 /\ Len(streak_backoffs) < 3
          THEN Append(streak_backoffs, reconnect_delay)
          ELSE streak_backoffs
    /\ UNCHANGED <<stab_vars, conf_vars, parse_vars, sink_vars, running,
                   port_open, link_up, reconnect_delay, data, last_read,
                   read_fails, connects_after_stop, reads_after_stop>>

\* The delay doubled without the cap.
next_delay_uncapped(delay) == delay * 2

next_delay(delay) == MinOf(delay * 2, MaxDelay)

\* The sleep is over: the delay is doubled and the loop continues.
BackoffDone ==
    /\ pc = "backoff"
    /\ reconnect_delay' = next_delay(reconnect_delay)
    /\ pc' = "loop"
    /\ UNCHANGED <<stab_vars, conf_vars, parse_vars, sink_vars, running,
                   port_open, link_up, data, fails, backoffs, last_read,
                   read_fails, streak_backoffs, connects_after_stop,
                   reads_after_stop>>

\* read_async returned a frame.
ReadData(weight) ==
    /\ pc = "read"
    /\ port_open
    /\ link_up
    /\ Len(hist) < MaxLoopSamples
    /\ data' = Some(weight)
    /\ last_read' = "data"
    /\ read_fails' = 0
    /\ streak_backoffs' = <<>>
    /\ pc' = "process"
    /\ UNCHANGED <<stab_vars, conf_vars, parse_vars, sink_vars, running,
                   port_open, link_up, reconnect_delay, fails, backoffs,
                   connects_after_stop, reads_after_stop>>

\* readline() timed out with no data, or the chunk held no frame.
ReadNothing ==
    /\ pc = "read"
    /\ port_open
    /\ link_up
    /\ data' = None
    /\ last_read' = "timeout"
    /\ read_fails' = 0
    /\ streak_backoffs' = <<>>
    /\ pc' = "idle"
    /\ UNCHANGED <<stab_vars, conf_vars, parse_vars, sink_vars, running,
                   port_open, link_up, reconnect_delay, fails, backoffs,
                   connects_after_stop, reads_after_stop>>

\* A read error that takes the backoff path and doubles the delay.
ReadError_backs_off ==
    /\ pc = "read"
    /\ port_open
    /\ ~link_up
    /\ port_open' = FALSE
    /\ data' = None
    /\ last_read' = "error"
    /\ read_fails' = Bump(read_fails, 3)
    /\ backoffs' = Remember(backoffs, reconnect_delay, MaxFails)
    /\ pc' = "backoff"
    /\ UNCHANGED <<stab_vars, conf_vars, parse_vars, sink_vars, running,
                   link_up, reconnect_delay, fails, streak_backoffs,
                   connects_after_stop, reads_after_stop>>

\* A read error that leaves the port open.
ReadError_keeps_port ==
    /\ pc = "read"
    /\ port_open
    /\ ~link_up
    /\ data' = None
    /\ last_read' = "error"
    /\ read_fails' = Bump(read_fails, 3)
    /\ pc' = "idle"
    /\ UNCHANGED <<stab_vars, conf_vars, parse_vars, sink_vars, running,
                   port_open, link_up, reconnect_delay, fails, backoffs,
                   streak_backoffs, connects_after_stop, reads_after_stop>>

\* readline() raised SerialException: read_line closes the port and returns None.
ReadError ==
    /\ pc = "read"
    /\ port_open
    /\ ~link_up
    /\ port_open' = FALSE
    /\ data' = None
    /\ last_read' = "error"
    /\ read_fails' = Bump(read_fails, 3)
    /\ pc' = "idle"
    /\ UNCHANGED <<stab_vars, conf_vars, parse_vars, sink_vars, running,
                   link_up, reconnect_delay, fails, backoffs, streak_backoffs,
                   connects_after_stop, reads_after_stop>>

\* process_reading as one step: no listener is attached in that specification,
\* and what the log file holds is not looked at.
Process ==
    /\ pc = "process"
    /\ \E dt \in LoopDts : process_reading(data[1], dt)
    /\ pc' = "loop"
    /\ UNCHANGED <<conf_vars, parse_vars, sink_vars, running, port_open,
                   link_up, reconnect_delay, data, fails, backoffs, last_read,
                   read_fails, streak_backoffs, connects_after_stop,
                   reads_after_stop>>

IdleDone ==
    /\ pc = "idle"
    /\ pc' = "loop"
    /\ UNCHANGED <<stab_vars, conf_vars, parse_vars, sink_vars, running,
                   port_open, link_up, reconnect_delay, data, fails, backoffs,
                   last_read, read_fails, streak_backoffs, connects_after_stop,
                   reads_after_stop>>

\* The finally block of run().
RunFinally ==
    /\ pc = "exit"
    /\ running' = FALSE
    /\ port_open' = FALSE
    /\ pc' = "stopped"
    /\ UNCHANGED <<stab_vars, conf_vars, parse_vars, sink_vars, link_up,
                   reconnect_delay, data, fails, backoffs, last_read,
                   read_fails, streak_backoffs, connects_after_stop,
                   reads_after_stop>>

\* ScaleMiddleware.stop, called from the signal handler at any moment.
stop ==
    /\ running' = FALSE
    /\ UNCHANGED <<stab_vars, conf_vars, parse_vars, sink_vars, pc, port_open,
                   link_up, reconnect_delay, data, fails, backoffs, last_read,
                   read_fails, streak_backoffs, connects_after_stop,
                   reads_after_stop>>

\* Environment: the serial device goes away or comes back.
LinkChange ==
    /\ pc # "stopped"
    /\ link_up' = ~link_up
    /\ UNCHANGED <<stab_vars, conf_vars, parse_vars, sink_vars, pc, running,
                   port_open, reconnect_delay, data, fails, backoffs, last_read,
                   read_fails, streak_backoffs, connects_after_stop,
                   reads_after_stop>>

\* The steps of the program itself.
LoopStep ==
    \/ LoopTest
    \/ CheckPort
    \/ ConnectOk
    \/ ConnectFail
    \/ BackoffDone
    \/ \E weight \in LoopWeights : ReadData(weight)
    \/ ReadNothing
    \/ ReadError
    \/ Process
    \/ IdleDone
    \/ RunFinally

LoopNext == LoopStep \/ stop \/ LinkChange

\* The event loop keeps running the coroutine, and every sleep, connect and read
\* returns: the program's own steps are weakly fair.
LoopSpec == InitDefault /\ [][LoopNext]_vars /\ WF_vars(LoopStep)

(***************************************************************************)
(* The sinks: TransactionLogger.log and ScaleWebSocketServer.broadcast,    *)
(* with the listeners' handlers running on the same event loop.            *)
(* process_reading is split at its await: pc is                            *)
(*   "log"    past mark_sent, at logger.log(reading) (line 553)            *)
(*   "bcast"  at ws_server.broadcast(reading) (line 556)                   *)
(*   "iter"   at the for statement of broadcast (line 406)                 *)
(*   "send"   suspended in await client.send(message) (line 408).          *)
(* An exception that leaves scale_reader_loop reaches run(), which         *)
(* catches asyncio.CancelledError only: its finally block runs ("exit").   *)
(*                                                                         *)
(* for client in self.clients iterates the live set.  The set iterator     *)
(* raises RuntimeError when the size of the set differs from the size it   *)
(* was made with; when the size is the same but the members are not, a     *)
(* removed member is not yielded and an added one is yielded or not,       *)
(* depending on the slot it hashes to.                                     *)
(***************************************************************************)
reading == events[Len(events)]

\* The reader coroutine is suspended in an await (sleep, read_async or send):
\* only then does the event loop run the handlers.
Yielded == pc \in {"backoff", "read", "idle", "send"}

\* handler: self.clients.add(websocket), for a new connection.
Attach(c) ==
    /\ Yielded
    /\ c \notin clients
    /\ c \notin gone
    /\ clients' = clients \cup {c}
    /\ IF pc = "send"
       THEN \E ahead \in BOOLEAN : it_left' = IF ahead THEN it_left \cup {c} ELSE it_left
       ELSE UNCHANGED it_left
    /\ last_recv' = None
    /\ UNCHANGED <<stab_vars, conf_vars, parse_vars, loop_vars, closed, gone,
                   stalled, log_lines, log_failed, it_used, cur, disconnected,
                   received, whole, bstat>>

\* Environment: the connection of an attached listener closes.
ConnClose(c) ==
    /\ pc # "stopped"
    /\ c \in clients
    /\ c \notin closed
    /\ c \notin stalled
    /\ closed' = closed \cup {c}
    /\ whole' = whole \ {c}
    /\ last_recv' = None
    /\ UNCHANGED <<stab_vars, conf_vars, parse_vars, loop_vars, clients, gone,
                   stalled, log_lines, log_failed, it_left, it_used, cur,
                   disconnected, received, bstat>>

\* handler: the async for ends with ConnectionClosed; finally discards the client.
Detach(c) ==
    /\ Yielded
    /\ c \in clients
    /\ c \in closed
    /\ clients' = clients \ {c}
    /\ closed' = closed \ {c}
    /\ gone' = gone \cup {c}
    /\ it_left' = it_left \ {c}
    /\ last_recv' = None
    /\ UNCHANGED <<stab_vars, conf_vars, parse_vars, loop_vars, stalled,
                   log_lines, log_failed, it_used, cur, disconnected, received,
                   whole, bstat>>

\* Environment: an attached listener stops reading from its connection, so that a
\* send to it never completes.
Stall(c) ==
    /\ pc # "stopped"
    /\ c \in clients
    /\ c \notin closed
    /\ stalled = {}
    /\ stalled' = {c}
    /\ last_recv' = None
    /\ UNCHANGED <<stab_vars, conf_vars, parse_vars, loop_vars, clients, closed,
                   gone, log_lines, log_failed, it_left, it_used, cur,
                   disconnected, received, whole, bstat>>

\* process_reading up to mark_sent; the sinks follow when an event was built.
ProcessEmit ==
    /\ pc = "process"
    /\ \E dt \in LoopDts : process_reading(data[1], dt)
    /\ pc' = IF Len(events') > Len(events) THEN "log" ELSE "loop"
    /\ UNCHANGED <<conf_vars, parse_vars, sink_vars, running, port_open,
                   link_up, reconnect_delay, data, fails, backoffs, last_read,
                   read_fails, streak_backoffs, connects_after_stop,
                   reads_after_stop>>

\* The variables of the reader loop other than pc.
loop_rest == <<running, port_open, link_up, reconnect_delay, data, fails, backoffs,
               last_read, read_fails, streak_backoffs, connects_after_stop,
               reads_after_stop>>

\* TransactionLogger.log: the line is appended, or open/write raises and the
\* exception is caught and logged.
LogWrite ==
    /\ pc = "log"
    /\ \E ok \in BOOLEAN :
          IF ok
          THEN log_lines' = Append(log_lines, reading) /\ UNCHANGED log_failed
          ELSE log_failed' = log_failed \cup {reading} /\ UNCHANGED log_lines
    /\ pc' = "bcast"
    /\ UNCHANGED <<stab_vars, conf_vars, parse_vars, loop_rest, clients, closed,
                   gone, stalled, it_left, it_used, cur, disconnected, received,
                   whole, bstat, last_recv>>

\* broadcast: return at once without clients, else start iterating over them.
BroadcastStart ==
    /\ pc = "bcast"
    /\ IF clients = {}
       THEN /\ pc' = "loop"
            /\ bstat' = "done"
            /\ whole' = {}
            /\ UNCHANGED <<it_left, it_used, disconnected>>
       ELSE /\ pc' = "iter"
            /\ bstat' = "running"
            /\ whole' = clients \ closed
            /\ it_left' = clients
            /\ it_used' = Cardinality(clients)
            /\ disconnected' = {}
    /\ UNCHANGED <<stab_vars, conf_vars, parse_vars, loop_rest, clients, closed,
                   gone, stalled, log_lines, log_failed, cur, received,
                   last_recv>>

\* The for statement asks the set iterator for the next client.
IterNext ==
    /\ pc = "iter"
    /\ IF Cardinality(clients) # it_used
       THEN \* RuntimeError: Set changed size during iteration
            /\ pc' = "exit"
            /\ bstat' = "set_changed"
            /\ UNCHANGED <<clients, closed, gone, it_left, cur>>
       ELSE IF it_left = {}
       THEN \* self.clients -= disconnected, and broadcast returns
            /\ pc' = "loop"
            /\ bstat' = "done"
            /\ clients' = clients \ disconnected
            /\ closed' = closed \ disconnected
            /\ gone' = gone \cup (clients \cap disconnected)
            /\ UNCHANGED <<it_left, cur>>
       ELSE /\ \E c \in it_left :
                  /\ cur' = Some(c)
                  /\ it_left' = it_left \ {c}
            /\ pc' = "send"
            /\ UNCHANGED <<clients, closed, gone, bstat>>
    /\ UNCHANGED <<stab_vars, conf_vars, parse_vars, loop_rest, stalled,
                   log_lines, log_failed, it_used, disconnected, received,
                   whole, last_recv>>

\* client.send returned.
SendOk ==
    /\ pc = "send"
    /\ cur[1] \notin closed \cup gone \cup stalled
    /\ received' = [received EXCEPT ![cur[1]] = Append(@, reading)]
    /\ cur' = None
    /\ pc' = "iter"
    /\ UNCHANGED <<stab_vars, conf_vars, parse_vars, loop_rest, clients, closed,
                   gone, stalled, log_lines, log_failed, it_left, it_used,
                   disconnected, whole, bstat, last_recv>>

\* client.send raised ConnectionClosed: the client is put aside.
SendClosed ==
    /\ pc = "send"
    /\ cur[1] \in closed \cup gone
    /\ disconnected' = disconnected \cup {cur[1]}
    /\ cur' = None
    /\ pc' = "iter"
    /\ UNCHANGED <<stab_vars, conf_vars, parse_vars, loop_rest, clients, closed,
                   gone, stalled, log_lines, log_failed, it_left, it_used,
                   received, whole, bstat, last_recv>>

\* client.send raised an exception that is not ConnectionClosed: nothing on the
\* way up catches it.
SendError ==
    /\ pc = "send"
    /\ cur[1] \notin stalled
    /\ cur' = None
    /\ pc' = "exit"
    /\ bstat' = "send_error"
    /\ UNCHANGED <<stab_vars, conf_vars, parse_vars, loop_rest, clients, closed,
                   gone, stalled, log_lines, log_failed, it_left, it_used,
                   disconnected, received, whole, last_recv>>

\* The steps of the program: the reader loop on a healthy link, the sinks and
\* the handlers' cleanup.
SinkStep ==
    \/ LoopTest
    \/ CheckPort
    \/ ConnectOk
    \/ \E weight \in LoopWeights : ReadData(weight)
    \/ ReadNothing
    \/ IdleDone
    \/ ProcessEmit
    \/ LogWrite
    \/ BroadcastStart
    \/ IterNext
    \/ SendOk
    \/ SendClosed
    \/ SendError
    \/ RunFinally
    \/ \E c \in Listeners : Detach(c)

SinkNext ==
    \/ SinkStep
    \/ \E c \in Listeners : Attach(c)
    \/ \E c \in Listeners : ConnClose(c)
    \/ \E c \in Listeners : Stall(c)

\* Every step of the program that can be taken is taken; a send to a stalled
\* listener cannot.
SinkSpec == InitDefault /\ [][SinkNext]_vars /\ WF_vars(SinkStep)

(***************************************************************************)
(* ScaleWebSocketServer.handler: the messages a listener sends.  A message *)
(* is text that is not JSON, or the JSON text of an object (with type      *)
(* "ping", with another type, or without one), a number, a string, a list  *)
(* or null.                                                                *)
(***************************************************************************)
Message(kind, type) == [kind |-> kind, type |-> type]

Messages ==
    {Message("object", type) : type \in {"ping", "other", "absent"}}
        \cup {Message(kind, "absent") :
                 kind \in {"not_json", "number", "string", "list", "null"}}

\* The body of the async for.  json.loads raises JSONDecodeError on text that
\* is not JSON, which is caught; on a value that is not a dict, data.get raises
\* AttributeError, which is not.
handle_message(m) ==
    IF m.kind = "not_json" THEN "ignored"
    ELSE IF m.kind # "object" THEN "raised"
    ELSE IF m.type = "ping" THEN "pong"
    ELSE "ignored"

\* One message of an attached listener handled.  An exception leaves the
\* handler through its finally block, which discards the client.
Receive(c, m) ==
    /\ Yielded
    /\ c \in clients
    /\ c \notin closed
    /\ last_recv' = Some([listener |-> c, message |-> m,
                          pong |-> handle_message(m) = "pong"])
    /\ IF handle_message(m) = "raised"
       THEN /\ clients' = clients \ {c}
            /\ gone' = gone \cup {c}
            /\ it_left' = it_left \ {c}
       ELSE UNCHANGED <<clients, gone, it_left>>
    /\ UNCHANGED <<stab_vars, conf_vars, parse_vars, loop_vars, closed, stalled,
                   log_lines, log_failed, it_used, cur, disconnected, received,
                   whole, bstat>>

\* The handlers run while the reader loop, with nothing to read, waits.
HandlerNext ==
    \/ LoopTest
    \/ CheckPort
    \/ ConnectOk
    \/ ReadNothing
    \/ IdleDone
    \/ \E c \in Listeners : Attach(c)
    \/ \E c \in Listeners, m \in Messages : Receive(c, m)
    \/ \E c \in Listeners : ConnClose(c)
    \/ \E c \in Listeners : Detach(c)

HandlerSpec == InitDefault /\ [][HandlerNext]_vars

(***************************************************************************)
(* Reading the history.                                                    *)
(***************************************************************************)
SetMax(S) == CHOOSE x \in S : \A y \in S : y <= x

Last == hist[Len(hist)]

\* The call reached a settlement: the window was stable and a weight computed.
Settled(e) == e.outcome \in {"duplicate", "emitted"}

\* The calls before the last one that emitted an event.
EmittedBefore == {k \in 1..(Len(hist) - 1) : hist[k].outcome = "emitted"}

\* The current weighing action: the samples after the last non-positive one.
RunStart ==
    LET Z == {k \in 1..Len(hist) : hist[k].weight <= 0}
    IN  IF Z = {} THEN 1 ELSE SetMax(Z) + 1

Run == RunStart..Len(hist)

(***************************************************************************)
(* C1: a weighing action (the run of positive samples since the last       *)
(* non-positive sample or the start of the stream, all within the          *)
(* stability threshold of each other) that has lasted at least             *)
(* stability_readings samples has produced exactly one event.  Stated for   *)
(* stability_readings >= 3, where the settled weight is a mean of three    *)
(* window samples.                                                         *)
(***************************************************************************)
C1_ExactlyOneEventPerAction ==
    ( /\ stability_readings >= MeanCount
      /\ Cardinality(Run) >= stability_readings
      /\ \A i, j \in Run : hist[i].weight - hist[j].weight <= stability_threshold )
    => Cardinality({k \in Run : hist[k].outcome = "emitted"}) = 1

(***************************************************************************)
(* C2: stability law.  A call with a positive sample reaches a settlement  *)
(* iff the window then holds at least stability_readings samples and the   *)
(* most recent stability_readings of them differ by at most                *)
(* stability_threshold; a settlement that is not suppressed as a duplicate *)
(* hands an event with the settled weight to the sinks.                    *)
(***************************************************************************)
C2_StabilityLaw ==
    (hist # <<>> /\ Last.weight > 0) =>
        /\ Settled(Last) <=>
              /\ Len(readings) >= stability_readings
              /\ \A i, j \in (Len(readings) - stability_readings + 1)..Len(readings) :
                    readings[i] - readings[j] <= stability_threshold
        /\ Last.outcome = "emitted" =>
              /\ events # <<>>
              /\ events[Len(events)].weight = Last.settled
              /\ events[Len(events)].timestamp = Last.time

\* A settlement of three samples whose spread is exactly the threshold.
C2_Witness ==
    /\ hist # <<>>
    /\ Last.outcome = "emitted"
    /\ stability_readings = 3
    /\ Len(readings) >= 3
    /\ SeqMax(LastK(readings, 3)) - SeqMin(LastK(readings, 3)) = stability_threshold

(***************************************************************************)
(* C3: duplicate law.  A settlement s reached after the most recent event  *)
(* (weight w, time t) is suppressed iff |s - w| <= 0.01 kg and             *)
(* now - t < duplicate_timeout: an equal settlement is emitted again once  *)
(* the timeout has elapsed, a settlement further than 0.01 kg from w is    *)
(* emitted whatever the elapsed time, and the first settlement is emitted. *)
(***************************************************************************)
C3_DuplicateLaw ==
    (hist # <<>> /\ Settled(Last)) =>
        IF EmittedBefore = {}
        THEN Last.outcome = "emitted"
        ELSE LET sent == hist[SetMax(EmittedBefore)]
             IN  Last.outcome = "duplicate" <=>
                    /\ Abs(Last.settled - sent.settled) <= DupTolerance
                    /\ Last.time - sent.time < duplicate_timeout

\* An equal settlement emitted again exactly when the timeout has elapsed.
C3_Witness ==
    /\ hist # <<>>
    /\ EmittedBefore # {}
    /\ Last.outcome = "emitted"
    /\ Last.settled = hist[SetMax(EmittedBefore)].settled
    /\ Last.time - hist[SetMax(EmittedBefore)].time = duplicate_timeout

(***************************************************************************)
(* C4: a sample with weight <= 0 never produces an event: every such call  *)
(* is rejected, and the events are exactly those of the emitting calls,    *)
(* all of which have a positive sample.                                    *)
(***************************************************************************)
C4_NonPositiveRejected ==
    /\ \A k \in 1..Len(hist) : hist[k].weight <= 0 => hist[k].outcome = "rejected"
    /\ Len(events) = Cardinality({k \in 1..Len(hist) : hist[k].outcome = "emitted"})
    /\ \A k \in 1..Len(events) : events[k].weight > 0

\* A non-positive sample arrives while the window is stable and the cooldown of
\* the last event has elapsed: a positive sample would have emitted.
C4_Witness ==
    /\ hist # <<>>
    /\ Last.weight <= 0
    /\ is_stable(readings, stability_threshold, stability_readings)
    /\ last_sent_time # None
    /\ now - last_sent_time[1] >= duplicate_timeout

(***************************************************************************)
(* C6: whenever a settlement is reached the settled weight is the          *)
(* arithmetic mean, rounded to the gram, of the last three window samples, *)
(* or of all the window samples when the window holds fewer than three.    *)
(***************************************************************************)
C6_MeanOfLastThree ==
    (hist # <<>> /\ Settled(Last)) =>
        LET recent == LastK(readings, MeanCount)
        IN  2 * Abs(Len(recent) * Last.settled - SeqSum(recent)) <= Len(recent)

(***************************************************************************)
(* C5 as stated: the window equals the most recent (up to 10) ingested     *)
(* samples in arrival order, non-positive samples included.                *)
(***************************************************************************)
HistWeights == [k \in 1..Len(hist) |-> hist[k].weight]

IsPositive(w) == w > 0

C5_WindowHoldsEverySample == readings = LastK(HistWeights, WindowCap)

(***************************************************************************)
(* C5 amended: the weight <= 0 rejection comes before the append, so the   *)
(* window equals the most recent (up to 10) positive samples in arrival    *)
(* order; a non-positive sample is not in the window.                      *)
(***************************************************************************)
C5_WindowHoldsPositiveSamples ==
    readings = LastK(SelectSeq(HistWeights, IsPositive), WindowCap)

\* A non-positive sample between two weighings, in a window that has evicted:
\* the window is stable across it.
C5_Witness ==
    /\ Len(SelectSeq(HistWeights, IsPositive)) > WindowCap
    /\ hist[Len(hist) - 1].weight <= 0
    /\ hist[Len(hist) - 2].weight > 0
    /\ Last.weight > 0
    /\ Len(readings) >= stability_readings
    /\ Settled(Last)

(***************************************************************************)
(* C7: the delay slept after the k-th consecutive failed connect is        *)
(* min(2^(k-1), 30) seconds; after a successful connect the delay of the   *)
(* next failed connect is 1 again; the delay is never below 1 nor above    *)
(* 30.  (fails saturates at MaxFails >= 6, from where the delay is 30.)    *)
(***************************************************************************)
RECURSIVE Pow2(_)
Pow2(n) == IF n <= 0 THEN 1 ELSE 2 * Pow2(n - 1)

C7_BackoffSchedule ==
    /\ reconnect_delay >= InitialDelay
    /\ reconnect_delay <= MaxDelay
    /\ reconnect_delay = IF pc = "backoff"
                         THEN MinOf(Pow2(fails - 1), MaxDelay)
                         ELSE MinOf(Pow2(fails), MaxDelay)
    /\ fails < MaxFails =>
          /\ Len(backoffs) = fails
          /\ \A k \in 1..Len(backoffs) : backoffs[k] = MinOf(Pow2(k - 1), MaxDelay)

\* The sixth consecutive failed connect sleeps the capped delay.
C7_Witness ==
    /\ pc = "backoff"
    /\ fails = 6
    /\ backoffs = <<1, 2, 4, 8, 16, 30>>

(***************************************************************************)
(* C8 as stated: once the read has failed three times consecutively and    *)
(* the loop is reading again, the backoff delays it slept since the first  *)
(* of those failures are 1, 2 and 4 seconds, one per read failure.         *)
(***************************************************************************)
C8_BackoffPerReadFailure ==
    (read_fails = 3 /\ pc = "read") => streak_backoffs = <<1, 2, 4>>

(***************************************************************************)
(* C8 amended: the growing delays follow failed connects, not failed       *)
(* reads.  Three consecutive failed connects sleep 1, 2 and 4 seconds and  *)
(* a successful connect resets the next failure's delay to 1; a failed     *)
(* read closes the port and is followed by the idle delay only, with no    *)
(* backoff delay and the reconnect delay still 1.                          *)
(***************************************************************************)
C8_BackoffPerConnectFailure ==
    /\ (fails >= 3 /\ fails < MaxFails) => SubSeq(backoffs, 1, 3) = <<1, 2, 4>>
    /\ fails = 0 => (backoffs = <<>> /\ reconnect_delay = InitialDelay)
    /\ pc = "backoff" => fails > 0
    /\ (last_read = "error" /\ pc = "idle") =>
          (~port_open /\ fails = 0 /\ reconnect_delay = InitialDelay)

\* A failed read followed by three failed connects.
C8_Witness ==
    /\ pc = "backoff"
    /\ fails = 3
    /\ last_read = "error"
    /\ streak_backoffs = <<1, 2, 4>>

(***************************************************************************)
(* C9: a link failure never ends the reader loop.  The loop is past its    *)
(* while statement only when running is false; as long as the pipeline     *)
(* runs with the port closed a connect attempt comes again and again; and  *)
(* if the link stays up from some moment on, the loop reads again and      *)
(* again.                                                                  *)
(***************************************************************************)
C9_LoopSurvivesLinkFailure ==
    /\ [](pc \in {"exit", "stopped"} => ~running)
    /\ []<>(~running \/ port_open \/ pc = "connect")
    /\ (<>[]link_up) => []<>(~running \/ pc = "read")

\* Reading again after a failed read and a failed open.
C9_Witness ==
    /\ pc = "read"
    /\ running
    /\ last_read = "error"
    /\ streak_backoffs # <<>>

C18_LinkTransitions ==
    /\ []((last_read = "timeout" /\ pc \in {"idle", "loop", "body"}) =>
            (port_open /\ data = None))
    /\ [](pc \in {"connect", "backoff"} => last_read # "timeout")
    /\ []((last_read = "error" /\ pc \in {"idle", "loop", "body"}) =>
            (~port_open /\ data = None))
    /\ [][(last_read = "error" /\ pc # "read" /\ pc' = "read") => pc = "connect"]_vars
    /\ ((last_read = "error" /\ pc = "idle") ~> (pc = "connect" \/ ~running))

\* The iteration after a read error is in its connect attempt.
C18_Witness ==
    /\ pc = "connect"
    /\ running
    /\ last_read = "error"
    /\ read_fails = 1
    /\ fails = 0

(***************************************************************************)
(* C19: the last-emitted record is empty until the first event and is      *)
(* afterwards the settled weight and the time of the most recent call that *)
(* emitted: rejecting, unstable and duplicate calls leave it as it was,    *)
(* and nothing clears it.                                                  *)
(***************************************************************************)
EmittedCalls == {k \in 1..Len(hist) : hist[k].outcome = "emitted"}

C19_LastSentRecord ==
    IF EmittedCalls = {}
    THEN last_sent_weight = None /\ last_sent_time = None
    ELSE /\ last_sent_weight = Some(hist[SetMax(EmittedCalls)].settled)
         /\ last_sent_time = Some(hist[SetMax(EmittedCalls)].time)

\* The record was replaced by a second event, and a later call that did not
\* emit has left it alone.
C19_Witness ==
    /\ Cardinality(EmittedCalls) >= 2
    /\ Last.outcome \in {"rejected", "unstable", "duplicate"}
    /\ last_sent_time # None
    /\ last_sent_time[1] < now

(***************************************************************************)
(* C20: the stability window never holds more than 10 samples; a call      *)
(* that changes the window appends its sample, after dropping the oldest   *)
(* one when the window was full, and keeps the other samples in order;     *)
(* the window never gets shorter.                                          *)
(***************************************************************************)
C20_WindowBounded ==
    /\ [](Len(readings) <= WindowCap)
    /\ [][readings' # readings =>
             /\ Len(hist') = Len(hist) + 1
             /\ readings' = Append(IF Len(readings) = WindowCap
                                   THEN Tail(readings) ELSE readings,
                                   hist'[Len(hist')].weight)]_vars
    /\ [][Len(readings') >= Len(readings)]_vars

\* A full window that has evicted its first sample, which differed from the rest.
C20_Witness ==
    /\ Len(readings) = WindowCap
    /\ Len(SelectSeq(HistWeights, IsPositive)) > WindowCap
    /\ hist[1].weight > 0
    /\ readings[1] # hist[1].weight
    /\ readings[WindowCap] = Last.weight


(***************************************************************************)
(* C17: the event of an emitting call carries the frame's product code and *)
(* the frame's unit price when that is not zero, else the price-table      *)
(* entry of the product code, else 0; its total is the settled weight      *)
(* times that unit price rounded to the cent, whatever total the frame     *)
(* carried.                                                                *)
(***************************************************************************)
C17_EventPricing ==
    (hist # <<>> /\ Last.outcome = "emitted") =>
        LET e == events[Len(events)]
            price == IF Last.unit_price # 0 THEN Last.unit_price
                     ELSE IF Last.product_id \in DOMAIN plu_prices
                          THEN plu_prices[Last.product_id]
                          ELSE 0
        IN  /\ e.product_id = Last.product_id
            /\ e.weight = Last.settled
            /\ e.unit_price = price
            /\ e.total_price % 10 = 0
            /\ Abs(1000 * e.total_price - Last.settled * price) <= 5000

\* A frame without a unit price, of a product in the table, with a device total
\* that is not the recomputed one.
C17_Witness ==
    /\ hist # <<>>
    /\ Last.outcome = "emitted"
    /\ Last.unit_price = 0
    /\ Last.product_id = "0001"
    /\ Last.total_price # 0
    /\ events[Len(events)].total_price # Last.total_price
    /\ events[Len(events)].unit_price = 850000


(***************************************************************************)
(* Reading what the listeners received.                                    *)
(***************************************************************************)
Count(seq, x) == Cardinality({k \in 1..Len(seq) : seq[k] = x})

\* The broadcast is suspended in a send to a listener that has stopped reading.
SendStalled == pc = "send" /\ cur # None /\ cur[1] \in stalled

(***************************************************************************)
(* C11: a failing sink is contained.  No failed send ends the broadcast    *)
(* and with it the reader loop; and once the broadcast of an event is      *)
(* over, whether or not the log write failed and whichever sends failed,   *)
(* the event is in the log or its write failed, and every listener that    *)
(* was attached with an open connection throughout has received it.        *)
(***************************************************************************)
C11_SinkFailureIsolated ==
    /\ bstat # "send_error"
    /\ (bstat = "done" /\ events # <<>>) =>
          /\ Count(log_lines, reading) = 1 \/ reading \in log_failed
          /\ \A c \in whole : Count(received[c], reading) >= 1

(***************************************************************************)
(* C12: listeners attach and detach while a broadcast is suspended at a    *)
(* send.  The broadcast never ends with the set iterator's error, and once *)
(* it is over every listener that was attached throughout has received the *)
(* event exactly once.                                                     *)
(***************************************************************************)
C12_AttachDetachDuringBroadcast ==
    /\ bstat # "set_changed"
    /\ (bstat = "done" /\ events # <<>>) =>
          \A c \in whole : Count(received[c], reading) = 1

(***************************************************************************)
(* C13: a listener that has stopped reading holds up nothing.  Whenever    *)
(* the broadcast is suspended in a send to such a listener, the other      *)
(* listeners that stay attached get the event, and the reader loop comes   *)
(* to its next read.                                                       *)
(***************************************************************************)
C13_StalledListenerDoesNotBlock ==
    /\ (SendStalled ~> (pc = "read"))
    /\ (SendStalled ~>
           (\A c \in (clients \ closed) \ stalled : Count(received[c], reading) >= 1))

(***************************************************************************)
(* C14: the handler answers a message with a pong exactly when the message *)
(* is a JSON object whose type is "ping", and after any message the        *)
(* listener is still in the clients set.                                   *)
(***************************************************************************)
C14_PingPong ==
    last_recv # None =>
        /\ last_recv[1].pong <=>
              (last_recv[1].message.kind = "object" /\ last_recv[1].message.type = "ping")
        /\ last_recv[1].listener \in clients


(***************************************************************************)
(* The frame formats as languages: which strings are a frame of a format,  *)
(* stated by the shape of the string and not by how a match is searched.   *)
(***************************************************************************)
AllIn(str, S) == \A k \in 1..Len(str) : str[k] \in S

\* the first position of character c in str, 0 when it does not occur
Pos(str, c) == first_of({k \in 1..Len(str) : str[k] = c})

\* digits, then at most one point, then digits: at least one digit in front
IsDecimal(str) ==
    /\ str # <<>>
    /\ str[1] \in Digit
    /\ AllIn(str, Digit \cup {"."})
    /\ Cardinality({k \in 1..Len(str) : str[k] = "."}) <= 1

IsSigned(str) ==
    \/ IsDecimal(str)
    \/ str # <<>> /\ str[1] \in {"+", "-"} /\ IsDecimal(Tail(str))

IsPluWeight(str) ==
    /\ str # <<>>
    /\ str[1] = "P"
    /\ Pos(str, "W") \in 6..8
    /\ AllIn(SubSeq(str, 2, Pos(str, "W") - 1), Digit)
    /\ IsSigned(SubSeq(str, Pos(str, "W") + 1, Len(str)))

IsFull(str) ==
    /\ Pos(str, "U") # 0
    /\ Pos(str, "T") > Pos(str, "U")
    /\ IsPluWeight(SubSeq(str, 1, Pos(str, "U") - 1))
    /\ IsDecimal(SubSeq(str, Pos(str, "U") + 1, Pos(str, "T") - 1))
    /\ IsDecimal(SubSeq(str, Pos(str, "T") + 1, Len(str)))

IsWeightOnly(str) == str # <<>> /\ str[1] = "W" /\ IsSigned(Tail(str))

\* The number of a Bare-kilogram frame ends at d.
SimpleSplit(str, d) ==
    /\ IsDecimal(SubSeq(str, 1, d))
    /\ AllIn(SubSeq(str, d + 1, Len(str) - 2), Whitespace)
    /\ str[Len(str) - 1] \in {"k", "K"}
    /\ str[Len(str)] \in {"g", "G"}

IsSimple(str) == \E d \in 1..(Len(str) - 2) : SimpleSplit(str, d)

\* The fields a frame of each format carries.
FullFields(str) ==
    LET w == Pos(str, "W")
        u == Pos(str, "U")
        t == Pos(str, "T")
    IN  Frame(Join(SubSeq(str, 2, w - 1)), float_milli(SubSeq(str, w + 1, u - 1)),
              float_milli(SubSeq(str, u + 1, t - 1)),
              float_milli(SubSeq(str, t + 1, Len(str))))

PluWeightFields(str) ==
    LET w == Pos(str, "W")
        plu == Join(SubSeq(str, 2, w - 1))
        weight == float_milli(SubSeq(str, w + 1, Len(str)))
        price == IF plu \in DOMAIN plu_prices THEN plu_prices[plu] ELSE 0
    IN  Frame(plu, weight, price, round_price(weight, price))

WeightOnlyFields(str) == Frame("0000", float_milli(Tail(str)), 0, 0)

SimpleFields(str) ==
    LET d == CHOOSE k \in 1..(Len(str) - 2) : SimpleSplit(str, k)
    IN  Frame("0000", float_milli(SubSeq(str, 1, d)), 0, 0)

\* The pieces of str that begin with one of the given characters.
Pieces(str, first) ==
    UNION {{SubSeq(str, i, j) : j \in i..Len(str)} :
             i \in {k \in 1..Len(str) : str[k] \in first}}

\* The bytes of a chunk that survive the decoding.
Shown(bytes) == SelectSeq(bytes, IsAscii)

FullIn(str) == {piece \in Pieces(str, {"P"}) : IsFull(piece)}

PluWeightIn(str) == {piece \in Pieces(str, {"P"}) : IsPluWeight(piece)}

WeightOnlyIn(str) == {piece \in Pieces(str, {"W"}) : IsWeightOnly(piece)}

SimpleIn(str) == {piece \in Pieces(str, Digit) : IsSimple(piece)}

(***************************************************************************)
(* C15 as stated: when the chunk holds a well-formed Full frame, parse     *)
(* returns the product code, weight, unit price and total of that frame,   *)
(* whatever bytes precede or follow it.                                    *)
(***************************************************************************)
C15_FullFrameAnywhere ==
    (parsed # None /\ src.body.kind = "full") => parsed[1] = src.body.expect

(***************************************************************************)
(* C15 amended: parse returns the fields of the well-formed Full frame     *)
(* provided the bytes before it hold no Full frame of their own and the    *)
(* first decoded byte after it, if any, is neither a digit nor a point.    *)
(***************************************************************************)
C15_FullFrameDelimited ==
    ( /\ parsed # None
      /\ src.body.kind = "full"
      /\ FullIn(Shown(src.pre)) = {}
      /\ At(Shown(src.post), 1) \notin Digit \cup {"."} )
    => parsed[1] = src.body.expect

\* The frame of the example between a Weight-only frame and a later Full frame.
C15_Witness ==
    /\ parsed # None
    /\ src.pre = <<"W", "9", " ">>
    /\ src.post = <<",", "P", "9", "9", "9", "9", "W", "9", "U", "9", "T", "9">>
    /\ parsed[1] = Some(Frame("0002", 2500, 1200000, 3000000))

(***************************************************************************)
(* C16: parse always returns.  It returns a frame of the first format, in  *)
(* the order Full, Product+Weight, Weight-only, Bare-kilogram, that has a  *)
(* frame anywhere in the decoded text, and no frame when no format has     *)
(* one, in particular when the decoded text is empty or only whitespace.   *)
(***************************************************************************)
C16_HighestPriorityFormat ==
    parsed # None =>
        LET text == Shown(chunk)
        IN  /\ IF FullIn(text) # {}
               THEN parsed[1] \in {Some(FullFields(f)) : f \in FullIn(text)}
               ELSE IF PluWeightIn(text) # {}
               THEN parsed[1] \in {Some(PluWeightFields(f)) : f \in PluWeightIn(text)}
               ELSE IF WeightOnlyIn(text) # {}
               THEN parsed[1] \in {Some(WeightOnlyFields(f)) : f \in WeightOnlyIn(text)}
               ELSE IF SimpleIn(text) # {}
               THEN parsed[1] \in {Some(SimpleFields(f)) : f \in SimpleIn(text)}
               ELSE parsed[1] = None
            /\ AllIn(text, Whitespace) => parsed[1] = None

\* A Product+Weight frame returned although a Weight-only frame and a
\* Bare-kilogram frame come first in the chunk.
C16_Witness ==
    /\ parsed # None
    /\ src.pre = <<"3", "k", "g", " ">>
    /\ src.body.kind = "weight_only"
    /\ src.post = <<",", "P", "0", "0", "0", "5", "W", "2">>
    /\ parsed[1] = Some(Frame("0005", 2000, 950000, 1900000))


(***************************************************************************)
(* C22: the samples averaged into the weight of an event (the last three   *)
(* samples that entered the window, or all of them when there are fewer)   *)
(* all came from frames with the product code of the event.                *)
(***************************************************************************)
WindowCalls == {k \in 1..Len(hist) : hist[k].weight > 0}

AveragedCalls ==
    {k \in WindowCalls : Cardinality({j \in WindowCalls : j > k}) < MeanCount}

C22_SameProductSamples ==
    (hist # <<>> /\ Last.outcome = "emitted") =>
        \A k \in AveragedCalls : hist[k].product_id = Last.product_id


(***************************************************************************)
(* C21: an event for which the last-emitted record was updated is, in the  *)
(* order record, log, broadcast, appended to the audit log exactly once    *)
(* and sent to every listener attached at that moment; once its emission   *)
(* is over it has reached a log line or a listener.  No listener can be    *)
(* attached between mark_sent and the start of the broadcast (no await in  *)
(* between), so the listeners attached at that moment and not closed since *)
(* are the set whole.                                                      *)
(***************************************************************************)
Recorded ==
    /\ events # <<>>
    /\ last_sent_weight = Some(reading.weight)
    /\ last_sent_time = Some(reading.timestamp)

Emitting == pc \in {"log", "bcast", "iter", "send"}

ReachedListeners == {c \in Listeners : Count(received[c], reading) >= 1}

C21_RecordedEventReachesSinks ==
    Recorded =>
        /\ pc = "log" =>
              Count(log_lines, reading) = 0 /\ ReachedListeners = {}
        /\ pc = "bcast" => ReachedListeners = {}
        /\ ~Emitting =>
              /\ Count(log_lines, reading) = 1
              /\ whole \subseteq ReachedListeners
              /\ Count(log_lines, reading) >= 1 \/ ReachedListeners # {}

=============================================================================
